---------------------------- MODULE Spec2Model ----------------------------
(***************************************************************************)
(* Model of the two add-to-cart drivers of the repository:                 *)
(*   - add_to_cart.py: the visual driver (find_image_coordinates and       *)
(*     visual_click, "Wait + One-Shot + Retry");                           *)
(*   - add_to_cart_classic.py: the DOM driver (handle_cookie_popup,        *)
(*     add_to_cart with its selector cascade, and main's loop).            *)
(* The page capability (screenshot, locator probes, mouse) and OpenCV are  *)
(* the environment: each call's outcome is drawn with \E from the set of   *)
(* outcomes the call can produce.  Confidences are in tenths (0.8 is 8),   *)
(* sleeps in milliseconds.                                                 *)
(***************************************************************************)
EXTENDS Integers, Sequences, FiniteSets, TLC

VARIABLES
    \* ---- add_to_cart.py: visual_click ----
    vpc,                \* position inside visual_click
    wait_for_selector,  \* argument: a selector name or NoSelector
    template,           \* what cv2.imread(template_path) yields: None or a shape
    coords,             \* local variable coords of visual_click
    shots,              \* history: the environment's answer to each locate attempt
    returned,           \* history: what each find_image_coordinates call returned
    thresholds,         \* history: the threshold each call ran with
    actuation,          \* history: <<op, ok>> of each page.mouse call
    vlog,               \* history: the page / time operations issued, in order
    vresult,            \* what visual_click gave its caller
    \* ---- add_to_cart_classic.py: main / add_to_cart / handle_cookie_popup ----
    cpc,                \* position inside main / add_to_cart / handle_cookie_popup
    url_index,          \* main: index in cart of the URL being processed
    success_count,      \* main: success_count
    cookie_index,       \* handle_cookie_popup: index of the selector being tried
    cookie_log,         \* history: outcome of each cookie selector tried
    cookie_result,      \* return value of handle_cookie_popup
    selector_index,     \* add_to_cart: index in button_selectors of the loop
    button_found,       \* add_to_cart: button_found
    button_locator,     \* add_to_cart: rank the locator object points to, 0 = None
    matched_strategy,   \* add_to_cart: rank recorded as matched, 0 = None
    probes,             \* history: <<rank, outcome>> of each visibility probe
    clicks,             \* history: rank of each button_locator.click() issued
    click_outcomes,     \* history: how each button_locator.click() ended
    num_selectors,      \* len(button_selectors)
    visited,            \* history: index in cart of each URL handed to add_to_cart
    results             \* history: return value of each add_to_cart call

visual_vars == <<vpc, wait_for_selector, template, coords, shots, returned,
                 thresholds, actuation, vlog, vresult>>

classic_vars == <<cpc, url_index, success_count, cookie_index, cookie_log,
                  cookie_result, selector_index, button_found, button_locator,
                  matched_strategy, probes, clicks, click_outcomes,
                  num_selectors, visited, results>>

vars == <<visual_vars, classic_vars>>

-----------------------------------------------------------------------------
(* Bounds of the model                                                     *)

\* The frame is FrameW x FrameH pixels (the viewport, scaled down).
FrameW == 3
FrameH == 2
\* Confidences range over Threshold - ConfSpread .. Threshold + ConfSpread.
ConfSpread == 2
\* The selector lists are modelled by their first NumCookieSelectors and
\* NumButtonSelectors entries (the source lists nine of each).
NumCookieSelectors == 2
NumButtonSelectors == 3

-----------------------------------------------------------------------------
(* add_to_cart.py                                                          *)

\* Python's None.
None == [kind |-> "None"]

\* threshold=0.8, the default of find_image_coordinates, in tenths.
Threshold == 8

\* time.sleep(0.5) and time.sleep(1.0), in milliseconds.
RenderBufferMs == 500
RetryWaitMs == 1000

\* The number of find_image_coordinates call sites in visual_click.
max_attempts == 2

NoSelector == "None"

\* Shapes a decodable reference image can have: (w, h); one more than the
\* frame in each direction, so that a reference larger than the frame occurs.
TemplateShapes == {[kind |-> "image", w |-> w, h |-> h] :
                      w \in 1..(FrameW + 1), h \in 1..(FrameH + 1)}

\* cv2.imread(template_path): None when the file cannot be read or decoded.
Templates == {None} \cup TemplateShapes

Confidences == (Threshold - ConfSpread)..(Threshold + ConfSpread)

\* What the environment yields during one call of find_image_coordinates:
\* page.screenshot() raises or returns bytes; cv2.imdecode decodes them or
\* returns None; cv2.matchTemplate/minMaxLoc give max_val (possibly NaN) at
\* max_loc, a top-left offset at which the template fits inside the frame.
NoMatchData == [x |-> 0, y |-> 0, max_val |-> 0, nan |-> FALSE]

Fits(t) == t # None /\ t.w <= FrameW /\ t.h <= FrameH

Shots(t) ==
    {[capture |-> "raise", decodable |-> FALSE, m |-> NoMatchData],
     [capture |-> "ok", decodable |-> FALSE, m |-> NoMatchData]}
    \cup
    (IF Fits(t)
       THEN {[capture |-> "ok", decodable |-> TRUE,
              m |-> [x |-> x, y |-> y, max_val |-> v, nan |-> FALSE]] :
                 x \in 0..(FrameW - t.w), y \in 0..(FrameH - t.h),
                 v \in Confidences}
            \cup
            {[capture |-> "ok", decodable |-> TRUE,
              m |-> [x |-> 0, y |-> 0, max_val |-> 0, nan |-> TRUE]]}
       ELSE {[capture |-> "ok", decodable |-> TRUE, m |-> NoMatchData]})

\* Mutant: the comparison is strict.
MeetsThreshold_strict(m, threshold) == ~m.nan /\ m.max_val > threshold

\* max_val >= threshold; a comparison with NaN is False.
MeetsThreshold(m, threshold) == ~m.nan /\ m.max_val >= threshold

\* Mutant: the shape is unpacked as w, h instead of h, w.
Center_swapped(m, t) == [x |-> m.x + (t.h \div 2), y |-> m.y + (t.w \div 2)]

\* center_x = max_loc[0] + w // 2, center_y = max_loc[1] + h // 2
Center(m, t) == [x |-> m.x + (t.w \div 2), y |-> m.y + (t.h \div 2)]

\* Mutant: no try/except around the body, so a failing page.screenshot() or
\* OpenCV call leaves the function as an exception.
find_image_coordinates_uncaught(shot, t, threshold) ==
    IF shot.capture = "raise" THEN [kind |-> "exception"]
    ELSE IF ~shot.decodable THEN [kind |-> "exception"]
    ELSE IF t = None THEN None
    ELSE IF ~Fits(t) THEN [kind |-> "exception"]
    ELSE IF MeetsThreshold(shot.m, threshold)
      THEN [kind |-> "coords", x |-> Center(shot.m, t).x,
            y |-> Center(shot.m, t).y, val |-> shot.m.max_val]
      ELSE None

\* find_image_coordinates(page, template_path, threshold): the value returned.
find_image_coordinates(shot, t, threshold) ==
    IF shot.capture = "raise" THEN None            \* except Exception: None
    ELSE IF ~shot.decodable THEN None              \* cvtColor(None) raises
    ELSE IF t = None THEN None                     \* "Could not load image"
    ELSE IF ~Fits(t) THEN None                     \* matchTemplate raises
    ELSE IF MeetsThreshold(shot.m, threshold)
      THEN [kind |-> "coords", x |-> Center(shot.m, t).x,
            y |-> Center(shot.m, t).y, val |-> shot.m.max_val]
      ELSE None

\* Python truthiness of coords: None is falsy, the dict is truthy.
Truthy(c) == c # None

Event(op, arg) == [op |-> op, arg |-> arg]

\* Mutant: no try/except around wait_for, so a timeout leaves visual_click.
PreWait_fatal ==
    /\ vpc = "start"
    /\ wait_for_selector # NoSelector
    /\ \E ok \in BOOLEAN :
         /\ vlog' = Append(vlog, Event("wait_for", <<IF ok THEN 1 ELSE 0>>))
         /\ IF ok THEN vpc' = "render_buffer" /\ vresult' = vresult
                  ELSE vpc' = "done" /\ vresult' = "raised"
    /\ UNCHANGED <<wait_for_selector, template, coords, shots, returned,
                   thresholds, actuation>>

\* if wait_for_selector: try: page.locator(...).wait_for(...) except: pass
PreWait ==
    /\ vpc = "start"
    /\ wait_for_selector # NoSelector
    /\ \E ok \in BOOLEAN :
         vlog' = Append(vlog, Event("wait_for", <<IF ok THEN 1 ELSE 0>>))
    /\ vpc' = "render_buffer"
    /\ UNCHANGED <<wait_for_selector, template, coords, shots, returned,
                   thresholds, actuation, vresult>>

SkipPreWait ==
    /\ vpc = "start"
    /\ wait_for_selector = NoSelector
    /\ vpc' = "render_buffer"
    /\ UNCHANGED <<wait_for_selector, template, coords, shots, returned,
                   thresholds, actuation, vlog, vresult>>

\* time.sleep(0.5)
RenderBuffer ==
    /\ vpc = "render_buffer"
    /\ vlog' = Append(vlog, Event("sleep", <<RenderBufferMs>>))
    /\ vpc' = "attempt1"
    /\ UNCHANGED <<wait_for_selector, template, coords, shots, returned,
                   thresholds, actuation, vresult>>

\* Mutant: the frame of the first attempt is cached and searched again by the
\* later attempts, which take no screenshot of their own.
Locate_cached ==
    \E shot \in (IF shots = <<>> THEN Shots(template) ELSE {shots[1]}) :
       /\ coords' = find_image_coordinates(shot, template, Threshold)
       /\ shots' = Append(shots, shot)
       /\ returned' = Append(returned, coords')
       /\ thresholds' = Append(thresholds, Threshold)
       /\ vlog' = IF shots = <<>>
                    THEN vlog \o <<Event("locate", <<>>), Event("screenshot", <<>>)>>
                    ELSE Append(vlog, Event("locate", <<>>))
       /\ UNCHANGED <<wait_for_selector, template, actuation, vresult>>

\* One call coords = find_image_coordinates(page, template_path): the call
\* takes its own page.screenshot() (line 15), whose frame the environment
\* chooses, and returns what it computes from that frame.
Locate ==
    \E shot \in Shots(template) :
       /\ coords' = find_image_coordinates(shot, template, Threshold)
       /\ shots' = Append(shots, shot)
       /\ returned' = Append(returned, coords')
       /\ thresholds' = Append(thresholds, Threshold)
       /\ vlog' = vlog \o <<Event("locate", <<>>), Event("screenshot", <<>>)>>
       /\ UNCHANGED <<wait_for_selector, template, actuation, vresult>>

\* C. Attempt 1
Attempt1 ==
    /\ vpc = "attempt1"
    /\ Locate
    /\ vpc' = "check"

\* Mutant: the retry goes straight to the second attempt, without the wait.
RetryWait_nosleep ==
    /\ vpc = "check"
    /\ ~Truthy(coords)
    /\ vpc' = "attempt2"
    /\ UNCHANGED <<wait_for_selector, template, coords, shots, returned,
                   thresholds, actuation, vlog, vresult>>

\* D. if not coords: time.sleep(1.0) ...
RetryWait ==
    /\ vpc = "check"
    /\ ~Truthy(coords)
    /\ vlog' = Append(vlog, Event("sleep", <<RetryWaitMs>>))
    /\ vpc' = "attempt2"
    /\ UNCHANGED <<wait_for_selector, template, coords, shots, returned,
                   thresholds, actuation, vresult>>

SkipRetry ==
    /\ vpc = "check"
    /\ Truthy(coords)
    /\ vpc' = "action"
    /\ UNCHANGED <<wait_for_selector, template, coords, shots, returned,
                   thresholds, actuation, vlog, vresult>>

\* Mutant: the retry is a loop, "while not coords".
AfterAttempt2_while(c) == IF Truthy(c) THEN "action" ELSE "attempt2"

\* Where control goes after the second attempt returned c: on to E, whatever
\* c is (the retry is an if, not a loop).
AfterAttempt2(c) == "action"

\* ... coords = find_image_coordinates(page, template_path)
Attempt2 ==
    /\ vpc = "attempt2"
    /\ Locate
    /\ vpc' = AfterAttempt2(coords')

\* The coordinate handed to page.mouse.move and page.mouse.click.
MoveTarget(c) == <<c.x, c.y>>

\* Mutant: the click's arguments are swapped.
ClickTarget_swapped(c) == <<c.y, c.x>>

ClickTarget(c) == <<c.x, c.y>>

\* E. if coords: page.mouse.move(coords['x'], coords['y'])
MouseMove ==
    /\ vpc = "action"
    /\ Truthy(coords)
    /\ vlog' = Append(vlog, Event("move", MoveTarget(coords)))
    /\ \E ok \in BOOLEAN :
         /\ actuation' = Append(actuation, <<"move", ok>>)
         /\ IF ok THEN vpc' = "click" /\ vresult' = vresult
                  ELSE vpc' = "done" /\ vresult' = "raised"
    /\ UNCHANGED <<wait_for_selector, template, coords, shots, returned, thresholds>>

\* Mutant: a failing click is swallowed and success is reported.
MouseClick_swallow ==
    /\ vpc = "click"
    /\ vlog' = Append(vlog, Event("click", ClickTarget(coords)))
    /\ \E ok \in BOOLEAN : actuation' = Append(actuation, <<"click", ok>>)
    /\ vresult' = "True"
    /\ vpc' = "done"
    /\ UNCHANGED <<wait_for_selector, template, coords, shots, returned, thresholds>>

\* page.mouse.click(coords['x'], coords['y']); return True
MouseClick ==
    /\ vpc = "click"
    /\ vlog' = Append(vlog, Event("click", ClickTarget(coords)))
    /\ \E ok \in BOOLEAN :
         /\ actuation' = Append(actuation, <<"click", ok>>)
         /\ vresult' = IF ok THEN "True" ELSE "raised"
    /\ vpc' = "done"
    /\ UNCHANGED <<wait_for_selector, template, coords, shots, returned, thresholds>>

\* Mutant: not finding the image is raised as an error.
ReturnFalse_raises ==
    /\ vpc = "action"
    /\ ~Truthy(coords)
    /\ vresult' = "raised"
    /\ vpc' = "done"
    /\ UNCHANGED <<wait_for_selector, template, coords, shots, returned,
                   thresholds, actuation, vlog>>

\* else: return False
ReturnFalse ==
    /\ vpc = "action"
    /\ ~Truthy(coords)
    /\ vresult' = "False"
    /\ vpc' = "done"
    /\ UNCHANGED <<wait_for_selector, template, coords, shots, returned,
                   thresholds, actuation, vlog>>

VisualInit ==
    /\ vpc = "start"
    /\ wait_for_selector \in {NoSelector, "canvas"}
    /\ template \in Templates
    /\ coords = None
    /\ shots = <<>>
    /\ returned = <<>>
    /\ thresholds = <<>>
    /\ actuation = <<>>
    /\ vlog = <<>>
    /\ vresult = "pending"

VisualIdle ==
    /\ vpc = "idle"
    /\ wait_for_selector = NoSelector
    /\ template = None
    /\ coords = None
    /\ shots = <<>>
    /\ returned = <<>>
    /\ thresholds = <<>>
    /\ actuation = <<>>
    /\ vlog = <<>>
    /\ vresult = "pending"

ClassicIdle ==
    /\ cpc = "idle"
    /\ url_index = 0
    /\ success_count = 0
    /\ cookie_index = 0
    /\ cookie_log = <<>>
    /\ cookie_result = "pending"
    /\ selector_index = 0
    /\ button_found = FALSE
    /\ button_locator = 0
    /\ matched_strategy = 0
    /\ probes = <<>>
    /\ clicks = <<>>
    /\ click_outcomes = <<>>
    /\ num_selectors = NumButtonSelectors
    /\ visited = <<>>
    /\ results = <<>>

Init == VisualInit /\ ClassicIdle

Next ==
    \/ PreWait /\ UNCHANGED classic_vars
    \/ SkipPreWait /\ UNCHANGED classic_vars
    \/ RenderBuffer /\ UNCHANGED classic_vars
    \/ Attempt1 /\ UNCHANGED classic_vars
    \/ RetryWait /\ UNCHANGED classic_vars
    \/ SkipRetry /\ UNCHANGED classic_vars
    \/ Attempt2 /\ UNCHANGED classic_vars
    \/ MouseMove /\ UNCHANGED classic_vars
    \/ MouseClick /\ UNCHANGED classic_vars
    \/ ReturnFalse /\ UNCHANGED classic_vars

\* A call of visual_click(page, template_path, wait_for_selector).
Spec == Init /\ [][Next]_vars

-----------------------------------------------------------------------------
(* add_to_cart_classic.py                                                  *)

\* len(cart) in main.
CartLen == 2

\* button_selectors, by rank (1 = tried first), and cookie_selectors.
button_selectors == 1..num_selectors

cookie_selectors == 1..NumCookieSelectors

\* Outcomes of one pass of the probe: page.locator(selector).first raises,
\* is_visible raises, or is_visible returns False / True.
ProbeOutcomes == {"raise_locator", "raise_visible", "hidden", "visible"}

\* Outcomes of one pass of the cookie loop: the probe raises, the button is
\* not visible, or it is visible and button.click() returns or raises.
CookieOutcomes == {"raise", "hidden", "clicked", "click_raised"}

\* Outcomes of page.goto and of button_locator.click().
CallOutcomes == {"ok", "timeout", "error"}

\* return value: add_to_cart returns to main's loop,
\*   if add_to_cart(page, url): success_count += 1
Return(value) ==
    /\ results' = Append(results, value)
    /\ success_count' = IF value THEN success_count + 1 ELSE success_count
    /\ cpc' = "main"

\* for url in cart: add_to_cart(page, url)
MainNext ==
    /\ cpc = "main"
    /\ url_index < CartLen
    /\ url_index' = url_index + 1
    /\ cpc' = "goto"
    /\ cookie_index' = 0
    /\ cookie_log' = <<>>
    /\ cookie_result' = "pending"
    /\ selector_index' = 0
    /\ button_found' = FALSE
    /\ button_locator' = 0
    /\ matched_strategy' = 0
    /\ probes' = <<>>
    /\ clicks' = <<>>
    /\ click_outcomes' = <<>>
    /\ visited' = Append(visited, url_index')
    /\ UNCHANGED <<num_selectors, success_count, results>>

\* after the loop: page.close(), the summary, browser.close()
MainDone ==
    /\ cpc = "main"
    /\ url_index = CartLen
    /\ cpc' = "finished"
    /\ UNCHANGED <<num_selectors, visited, url_index, success_count, cookie_index, cookie_log,
                   cookie_result, selector_index, button_found, button_locator,
                   matched_strategy, probes, clicks, click_outcomes, results>>

\* Mutant: page.goto is outside the try, so a navigation error leaves
\* add_to_cart and ends main.
Goto_propagates ==
    /\ cpc = "goto"
    /\ \E outcome \in CallOutcomes :
         /\ cpc' = IF outcome = "ok" THEN "cookie" ELSE "crashed"
         /\ cookie_index' = IF outcome = "ok" THEN 1 ELSE cookie_index
    /\ UNCHANGED <<num_selectors, visited, url_index, success_count, results,
                   cookie_log, cookie_result, selector_index, button_found,
                   button_locator, matched_strategy, probes, clicks,
                   click_outcomes>>

\* page.goto(url, ...): a failure is caught by add_to_cart's except clauses.
Goto ==
    /\ cpc = "goto"
    /\ \E outcome \in CallOutcomes :
         IF outcome = "ok"
           THEN /\ cpc' = "cookie"
                /\ cookie_index' = 1
                /\ UNCHANGED <<success_count, results>>
           ELSE /\ Return(FALSE)
                /\ UNCHANGED cookie_index
    /\ UNCHANGED <<num_selectors, visited, url_index, cookie_log, cookie_result, selector_index,
                   button_found, button_locator, matched_strategy, probes, clicks, click_outcomes>>

\* button_found = False; button_locator = None; matched_strategy = None, and
\* the cascade starts at the first selector.
StartCascade ==
    /\ cpc' = "cascade"
    /\ selector_index' = 1
    /\ button_found' = FALSE
    /\ button_locator' = 0
    /\ matched_strategy' = 0

\* Mutant: button.click() is outside the try, so a click that raises leaves
\* handle_cookie_popup and add_to_cart's outer except returns False.
CookieProbe_click_aborts ==
    /\ cpc = "cookie"
    /\ cookie_index \in cookie_selectors
    /\ \E outcome \in CookieOutcomes :
         /\ cookie_log' = Append(cookie_log, <<cookie_index, outcome>>)
         /\ IF outcome = "clicked"
              THEN /\ cookie_result' = "True"
                   /\ StartCascade
                   /\ UNCHANGED <<cookie_index, success_count, results>>
              ELSE IF outcome = "click_raised"
              THEN /\ Return(FALSE)
                   /\ UNCHANGED <<cookie_index, cookie_result, selector_index,
                                  button_found, button_locator, matched_strategy>>
              ELSE /\ cookie_index' = cookie_index + 1
                   /\ UNCHANGED <<cpc, cookie_result, selector_index, button_found,
                                  button_locator, matched_strategy, success_count,
                                  results>>
    /\ UNCHANGED <<num_selectors, visited, url_index, probes, clicks,
                   click_outcomes>>

\* handle_cookie_popup: one pass of "for selector in cookie_selectors".
CookieProbe ==
    /\ cpc = "cookie"
    /\ cookie_index \in cookie_selectors
    /\ \E outcome \in CookieOutcomes :
         /\ cookie_log' = Append(cookie_log, <<cookie_index, outcome>>)
         /\ IF outcome = "clicked"
              THEN /\ cookie_result' = "True"
                   /\ StartCascade
                   /\ UNCHANGED cookie_index
              ELSE /\ cookie_index' = cookie_index + 1
                   /\ UNCHANGED <<cpc, cookie_result, selector_index, button_found,
                                  button_locator, matched_strategy>>
    /\ UNCHANGED <<num_selectors, visited, url_index, success_count, probes, clicks, click_outcomes, results>>

\* handle_cookie_popup: the loop is over, return False.
CookieNone ==
    /\ cpc = "cookie"
    /\ cookie_index \notin cookie_selectors
    /\ cookie_result' = "False"
    /\ StartCascade
    /\ UNCHANGED <<num_selectors, visited, url_index, success_count, cookie_index, cookie_log, probes,
                   clicks, click_outcomes, results>>

\* Mutant: a visible candidate does not end the loop.
Probe_nobreak ==
    /\ cpc = "cascade"
    /\ selector_index \in button_selectors
    /\ \E outcome \in ProbeOutcomes :
         /\ probes' = Append(probes, <<selector_index, outcome>>)
         /\ button_locator' = IF outcome = "raise_locator" THEN button_locator
                                                            ELSE selector_index
         /\ selector_index' = selector_index + 1
         /\ IF outcome = "visible"
              THEN button_found' = TRUE /\ matched_strategy' = selector_index
              ELSE UNCHANGED <<button_found, matched_strategy>>
    /\ UNCHANGED <<cpc, num_selectors, visited, url_index, success_count, cookie_index, cookie_log,
                   cookie_result, clicks, click_outcomes, results>>

\* Mutant: a probe that raises is not caught inside the loop: it reaches
\* add_to_cart's outer except, which returns False.
Probe_raise_aborts ==
    /\ cpc = "cascade"
    /\ selector_index \in button_selectors
    /\ \E outcome \in ProbeOutcomes :
         /\ probes' = Append(probes, <<selector_index, outcome>>)
         /\ button_locator' = IF outcome = "raise_locator" THEN button_locator
                                                            ELSE selector_index
         /\ IF outcome = "visible"
              THEN /\ button_found' = TRUE
                   /\ matched_strategy' = selector_index
                   /\ cpc' = "decide"
                   /\ UNCHANGED <<selector_index, success_count, results>>
              ELSE IF outcome = "hidden"
              THEN /\ selector_index' = selector_index + 1
                   /\ UNCHANGED <<cpc, button_found, matched_strategy,
                                  success_count, results>>
              ELSE /\ Return(FALSE)
                   /\ UNCHANGED <<selector_index, button_found, matched_strategy>>
    /\ UNCHANGED <<num_selectors, visited, url_index, cookie_index, cookie_log, cookie_result, clicks, click_outcomes>>

\* Mutant: the loop body runs before the list is tested (a do-while), so a
\* first probe is issued even when there is no candidate.
Probe_dowhile ==
    /\ cpc = "cascade"
    /\ selector_index \in button_selectors \/ selector_index = 1
    /\ \E outcome \in ProbeOutcomes :
         /\ probes' = Append(probes, <<selector_index, outcome>>)
         /\ button_locator' = IF outcome = "raise_locator" THEN button_locator
                                                            ELSE selector_index
         /\ IF outcome = "visible"
              THEN /\ button_found' = TRUE
                   /\ matched_strategy' = selector_index
                   /\ cpc' = "decide"
                   /\ UNCHANGED selector_index
              ELSE /\ selector_index' = selector_index + 1
                   /\ UNCHANGED <<cpc, button_found, matched_strategy>>
    /\ UNCHANGED <<num_selectors, visited, url_index, success_count, cookie_index,
                   cookie_log, cookie_result, clicks, click_outcomes, results>>

\* One pass of "for selector, strategy_name in button_selectors":
\*   button_locator = page.locator(selector).first
\*   if button_locator.is_visible(timeout=2000): ... break
\*   except Exception: continue
Probe ==
    /\ cpc = "cascade"
    /\ selector_index \in button_selectors
    /\ \E outcome \in ProbeOutcomes :
         /\ probes' = Append(probes, <<selector_index, outcome>>)
         /\ button_locator' = IF outcome = "raise_locator" THEN button_locator
                                                            ELSE selector_index
         /\ IF outcome = "visible"
              THEN /\ button_found' = TRUE
                   /\ matched_strategy' = selector_index
                   /\ cpc' = "decide"
                   /\ UNCHANGED selector_index
              ELSE /\ selector_index' = selector_index + 1
                   /\ UNCHANGED <<cpc, button_found, matched_strategy>>
    /\ UNCHANGED <<num_selectors, visited, url_index, success_count, cookie_index, cookie_log,
                   cookie_result, clicks, click_outcomes, results>>

\* The list is exhausted without a break.
CascadeExhausted ==
    /\ cpc = "cascade"
    /\ selector_index \notin button_selectors
    /\ cpc' = "decide"
    /\ UNCHANGED <<num_selectors, visited, url_index, success_count, cookie_index, cookie_log,
                   cookie_result, selector_index, button_found, button_locator,
                   matched_strategy, probes, clicks, click_outcomes, results>>

\* Mutant: the "if not button_found" check is missing, so the locator left by
\* the last probe is clicked.
ReturnNotFound_clicks ==
    /\ cpc = "decide"
    /\ ~button_found
    /\ clicks' = Append(clicks, button_locator)
    /\ click_outcomes' = Append(click_outcomes, "ok")
    /\ Return(TRUE)
    /\ UNCHANGED <<num_selectors, visited, url_index, cookie_index, cookie_log, cookie_result,
                   selector_index, button_found, button_locator,
                   matched_strategy, probes>>

\* if not button_found: ... return False
ReturnNotFound ==
    /\ cpc = "decide"
    /\ ~button_found
    /\ Return(FALSE)
    /\ UNCHANGED <<num_selectors, visited, url_index, cookie_index, cookie_log, cookie_result,
                   selector_index, button_found, button_locator,
                   matched_strategy, probes, clicks, click_outcomes>>

\* Mutant: a click that raises is issued again.
Click_retry ==
    /\ cpc = "decide"
    /\ button_found
    /\ clicks' = Append(clicks, button_locator)
    /\ \E outcome \in CallOutcomes :
         /\ click_outcomes' = Append(click_outcomes, outcome)
         /\ IF outcome = "ok"
              THEN Return(TRUE)
              ELSE UNCHANGED <<cpc, success_count, results>>
    /\ UNCHANGED <<num_selectors, visited, url_index, cookie_index, cookie_log,
                   cookie_result, selector_index, button_found, button_locator,
                   matched_strategy, probes>>

\* button_locator.click(); time.sleep(5); return True -- or the click raises
\* and an except clause returns False.
Click ==
    /\ cpc = "decide"
    /\ button_found
    /\ clicks' = Append(clicks, button_locator)
    /\ \E outcome \in CallOutcomes :
         /\ click_outcomes' = Append(click_outcomes, outcome)
         /\ Return(outcome = "ok")
    /\ UNCHANGED <<num_selectors, visited, url_index, cookie_index, cookie_log, cookie_result,
                   selector_index, button_found, button_locator,
                   matched_strategy, probes>>

\* main() up to the loop: success_count = 0, page = context.new_page().
ClassicInit ==
    /\ cpc = "main"
    /\ url_index = 0
    /\ success_count = 0
    /\ cookie_index = 0
    /\ cookie_log = <<>>
    /\ cookie_result = "pending"
    /\ selector_index = 0
    /\ button_found = FALSE
    /\ button_locator = 0
    /\ matched_strategy = 0
    /\ probes = <<>>
    /\ clicks = <<>>
    /\ click_outcomes = <<>>
    /\ num_selectors = NumButtonSelectors
    /\ visited = <<>>
    /\ results = <<>>

InitClassic == VisualIdle /\ ClassicInit

NextClassic ==
    \/ MainNext /\ UNCHANGED visual_vars
    \/ MainDone /\ UNCHANGED visual_vars
    \/ Goto /\ UNCHANGED visual_vars
    \/ CookieProbe /\ UNCHANGED visual_vars
    \/ CookieNone /\ UNCHANGED visual_vars
    \/ Probe /\ UNCHANGED visual_vars
    \/ CascadeExhausted /\ UNCHANGED visual_vars
    \/ ReturnNotFound /\ UNCHANGED visual_vars
    \/ Click /\ UNCHANGED visual_vars

\* A run of main() of add_to_cart_classic.py.
SpecClassic == InitClassic /\ [][NextClassic]_vars

\* The same code with the candidate list as an input: button_selectors holds
\* any number of candidates from none to NumButtonSelectors.
InitCascade ==
    /\ VisualIdle
    /\ cpc = "main"
    /\ url_index = 0
    /\ success_count = 0
    /\ cookie_index = 0
    /\ cookie_log = <<>>
    /\ cookie_result = "pending"
    /\ selector_index = 0
    /\ button_found = FALSE
    /\ button_locator = 0
    /\ matched_strategy = 0
    /\ probes = <<>>
    /\ clicks = <<>>
    /\ click_outcomes = <<>>
    /\ num_selectors \in 0..NumButtonSelectors
    /\ visited = <<>>
    /\ results = <<>>

SpecCascade == InitCascade /\ [][NextClassic]_vars

-----------------------------------------------------------------------------
(* find_image_coordinates called on its own, with a threshold of the caller *)

\* The thresholds a caller can pass: 0.0, 0.1, ..., 1.0.
Thresholds == 0..10

\* find_image_coordinates(page, template_path, threshold) with the frame
\* answer shot and the threshold t.
DirectCall(shot, t) ==
    /\ coords' = find_image_coordinates(shot, template, t)
    /\ shots' = Append(shots, shot)
    /\ returned' = Append(returned, coords')
    /\ thresholds' = Append(thresholds, t)
    /\ vlog' = vlog \o <<Event("locate", <<>>), Event("screenshot", <<>>)>>
    /\ UNCHANGED <<wait_for_selector, template, actuation, vresult>>

\* A first call: the environment chooses the frame.
LocateCall ==
    /\ vpc = "locate"
    /\ \E shot \in Shots(template), t \in Thresholds : DirectCall(shot, t)
    /\ vpc' = "relocate"

\* A second call against the unchanged page: the screenshot shows the same
\* frame, so OpenCV gives the same max_val and max_loc; the threshold differs.
LocateAgain ==
    /\ vpc = "relocate"
    /\ \E t \in Thresholds : DirectCall(shots[1], t)
    /\ vpc' = "located"

InitLocate ==
    /\ vpc = "locate"
    /\ wait_for_selector = NoSelector
    /\ template \in Templates
    /\ coords = None
    /\ shots = <<>>
    /\ returned = <<>>
    /\ thresholds = <<>>
    /\ actuation = <<>>
    /\ vlog = <<>>
    /\ vresult = "pending"
    /\ ClassicIdle

NextLocate ==
    \/ LocateCall /\ UNCHANGED classic_vars
    \/ LocateAgain /\ UNCHANGED classic_vars

\* Two calls of find_image_coordinates on the same frame and reference.
SpecLocate == InitLocate /\ [][NextLocate]_vars

-----------------------------------------------------------------------------
(* Either driver                                                           *)

InitDrivers == Init \/ InitClassic

NextDrivers == Next \/ NextClassic

\* A run of one of the two programs: visual_click, or main() of the classic
\* driver.
SpecDrivers == InitDrivers /\ [][NextDrivers]_vars

-----------------------------------------------------------------------------
(* Properties of visual_click (add_to_cart.py)                             *)

\* The events of vlog whose op is in ops, in order.
EventsOf(ops) == SelectSeq(vlog, LAMBDA e : e.op \in ops)

\* The scheduler's part of the log: the sleeps and the locate attempts.
Schedule == EventsOf({"sleep", "locate"})

Acted == EventsOf({"move", "click"}) # <<>>

\* The environment's answer s is a frame in which the reference was searched
\* and the best match is below the threshold.
BelowThreshold(s) ==
    /\ s.capture = "ok"
    /\ s.decodable
    /\ Fits(template)
    /\ ~MeetsThreshold(s.m, Threshold)

\* The attempt with answer s got as far as loading the reference image, which
\* could not be loaded.
ReferenceNotLoaded(s) == s.capture = "ok" /\ s.decodable /\ template = None

\* C1: in every execution of visual_click, whatever the locate attempts
\* return, find_image_coordinates is invoked at most max_attempts = 2 times,
\* and at least once by the time visual_click is done.
C1_AttemptsBounded ==
    /\ Len(shots) <= max_attempts
    /\ Len(EventsOf({"locate"})) = Len(shots)
    /\ vpc = "done" => Len(shots) >= 1

C1_Witness ==
    /\ vpc = "done"
    /\ Len(shots) = max_attempts
    /\ shots[1].capture = "raise"
    /\ returned[2] = None

\* C2: whenever a click is issued, the operation just before it is a pointer
\* move to the same coordinate, and that coordinate is the one the last
\* (successful) locate attempt returned.
C2_MoveBeforeClick ==
    \A i \in 1..Len(vlog) :
       vlog[i].op = "click" =>
          /\ i > 1
          /\ vlog[i - 1] = Event("move", vlog[i].arg)
          /\ returned # <<>>
          /\ Truthy(returned[Len(returned)])
          /\ vlog[i].arg = <<returned[Len(returned)].x, returned[Len(returned)].y>>

C2_Witness ==
    /\ vpc = "done"
    /\ vresult = "True"
    /\ Len(vlog) >= 2
    /\ vlog[Len(vlog)].op = "click"
    /\ vlog[Len(vlog)].arg[1] # vlog[Len(vlog)].arg[2]

\* C6: when every locate attempt of the budget returned None, visual_click
\* ends after max_attempts attempts with the result False: nothing raised,
\* no pointer move and no click.
C6_ExhaustedIsFalse ==
    (vpc = "done" /\ \A i \in 1..Len(returned) : returned[i] = None) =>
       /\ Len(returned) = max_attempts
       /\ vresult = "False"
       /\ ~Acted

C6_Witness ==
    /\ vpc = "done"
    /\ Len(shots) = max_attempts
    /\ \A i \in 1..Len(shots) : BelowThreshold(shots[i])
    /\ vresult = "False"

\* C7: the sleeps and locate attempts follow
\* wait(0.5 s), attempt, [wait(1.0 s), attempt]: the initial wait precedes the
\* first attempt; the retry wait (longer than the initial one) and the second
\* attempt happen if and only if the first attempt returned None, the wait
\* between the two attempts.
FullSchedule ==
    <<Event("sleep", <<RenderBufferMs>>), Event("locate", <<>>),
      Event("sleep", <<RetryWaitMs>>), Event("locate", <<>>)>>

C7_Schedule ==
    /\ RetryWaitMs > RenderBufferMs
    /\ Len(Schedule) <= Len(FullSchedule)
    /\ \A i \in 1..Len(Schedule) : Schedule[i] = FullSchedule[i]
    /\ Len(Schedule) > 2 => returned[1] = None
    /\ vpc \in {"action", "click", "done"} =>
          /\ returned # <<>>
          /\ Len(Schedule) = (IF returned[1] = None THEN 4 ELSE 2)

C7_Witness ==
    /\ vpc = "done"
    /\ Schedule = FullSchedule
    /\ returned[1] = None
    /\ Truthy(returned[2])

\* C8: a reference image that cannot be loaded on the first attempt is not
\* retried: no retry wait and no second locate attempt follow.
C8_ConfigErrorNotRetried ==
    (Len(shots) >= 1 /\ ReferenceNotLoaded(shots[1])) =>
       /\ Len(shots) = 1
       /\ Event("sleep", <<RetryWaitMs>>) \notin {vlog[i] : i \in 1..Len(vlog)}

\* C9: the value find_image_coordinates yields when the frame capture failed
\* differs from the value it yields when the frame was captured and the best
\* match was below the threshold.
C9_CaptureFailureDistinct ==
    \A i, j \in 1..Len(shots) :
       (shots[i].capture = "raise" /\ BelowThreshold(shots[j])) =>
          returned[i] # returned[j]

\* C10: the terminal states are told apart by the result: a run that ended on
\* a configuration error (the reference image could not be loaded) gives
\* neither the result of found-and-clicked (True) nor the result of
\* not-found-after-retries (False).
C10_TerminalStatesDistinct ==
    (vpc = "done" /\ \A i \in 1..Len(shots) : ReferenceNotLoaded(shots[i])) =>
       vresult \notin {"True", "False"}

-----------------------------------------------------------------------------
(* Properties of the selector cascade (add_to_cart_classic.py)             *)

\* The outcomes under which a probe raised.
Raised == {"raise_locator", "raise_visible"}

AnyVisible == \E i \in 1..Len(probes) : probes[i][2] = "visible"

\* C3: the candidates are probed strictly in rank order and the loop stops at
\* the first visible one: when candidate k is recorded as the match (in
\* matched_strategy, and as the locator that is clicked), ranks 1..k-1 have
\* been probed and failed and no rank above k has been probed.
C3_RankOrder ==
    /\ \A i \in 1..Len(probes) : probes[i][1] = i
    /\ \A i \in 1..(Len(probes) - 1) : probes[i][2] # "visible"
    /\ button_found = (matched_strategy # 0)
    /\ button_found =>
          /\ Len(probes) = matched_strategy
          /\ probes[matched_strategy] = <<matched_strategy, "visible">>
          /\ button_locator = matched_strategy
    /\ \A i \in 1..Len(clicks) : button_found /\ clicks[i] = matched_strategy

\* [A, B, C] with only C visible: C is matched after exactly two failed probes.
C3_Witness ==
    /\ probes = <<<<1, "hidden">>, <<2, "hidden">>, <<3, "visible">>>>
    /\ matched_strategy = 3
    /\ clicks = <<3>>
    /\ results # <<>>
    /\ results[Len(results)]

\* C4: a probe that raises counts as "this candidate did not match" and never
\* aborts the cascade: after candidate i raised, candidate i+1 is probed next
\* if there is one, and the outcome of the cascade is what it would be had
\* candidate i been not visible: found if and only if some candidate was
\* visible, and not found only after every candidate was probed.
C4_RaiseIsMiss ==
    /\ \A i \in 1..Len(probes) :
          (probes[i][2] \in Raised /\ i = Len(probes)) =>
             \/ i = NumButtonSelectors
             \/ cpc = "cascade" /\ selector_index = i + 1
    /\ \A i \in 1..Len(probes) :
          probes[i][2] \in Raised => matched_strategy # i
    /\ cpc = "decide" =>
          /\ button_found = AnyVisible
          /\ ~button_found => Len(probes) = NumButtonSelectors

C4_Witness ==
    /\ Len(probes) >= 3
    /\ probes[1][2] = "raise_visible"
    /\ probes[2][2] = "raise_locator"
    /\ probes[3][2] = "visible"
    /\ cpc = "decide"
    /\ button_found

\* The last add_to_cart call has returned to main's loop.
Returned == cpc \in {"main", "finished"} /\ results # <<>>

\* C5: when no candidate is visible before the list is exhausted, add_to_cart
\* returns False and clicks nothing, not even the locator left over from the
\* last failed probe.
C5_NotFoundIsFalse ==
    /\ ~AnyVisible => clicks = <<>>
    /\ (Returned /\ ~AnyVisible) => ~results[Len(results)]

C5_Witness ==
    /\ Returned
    /\ Len(probes) = NumButtonSelectors
    /\ ~AnyVisible
    /\ button_locator # 0
    /\ ~results[Len(results)]
    /\ clicks = <<>>

-----------------------------------------------------------------------------
(* Properties of the actuation, in both drivers                            *)

\* C11: an actuation error is never retried: per target resolution at most
\* one pointer move and one click are issued by visual_click and at most one
\* button_locator.click() by add_to_cart, also when the move or the click
\* fails; a failed actuation ends the call at once and is reported (the
\* exception leaves visual_click; add_to_cart returns False), never as True.
C11_NoActuationRetry ==
    /\ Len(EventsOf({"move"})) <= 1
    /\ Len(EventsOf({"click"})) <= 1
    /\ Len(actuation) = Len(EventsOf({"move", "click"}))
    /\ \A i \in 1..Len(actuation) :
          ~actuation[i][2] =>
             /\ i = Len(actuation)
             /\ vpc = "done"
             /\ vresult = "raised"
    /\ Len(clicks) <= 1
    /\ Len(click_outcomes) = Len(clicks)
    /\ \A i \in 1..Len(click_outcomes) :
          click_outcomes[i] # "ok" => (Returned /\ ~results[Len(results)])

C11_Witness ==
    /\ Returned
    /\ clicks = <<matched_strategy>>
    /\ click_outcomes = <<"timeout">>
    /\ ~results[Len(results)]

\* C12: success is reported only after a click that was issued and completed:
\* when visual_click returns True, the last locate attempt returned Found and
\* the move and the click on its coordinate both returned normally; when
\* add_to_cart returns True, a candidate was matched and the one click on it
\* returned normally.
C12_SuccessMeansClicked ==
    /\ vresult = "True" =>
          /\ returned # <<>>
          /\ Truthy(returned[Len(returned)])
          /\ actuation = <<<<"move", TRUE>>, <<"click", TRUE>>>>
          /\ EventsOf({"click"}) =
                <<Event("click", <<returned[Len(returned)].x,
                                   returned[Len(returned)].y>>)>>
    /\ (Returned /\ results[Len(results)]) =>
          /\ button_found
          /\ AnyVisible
          /\ clicks = <<matched_strategy>>
          /\ click_outcomes = <<"ok">>

C12_Witness ==
    /\ vpc = "done"
    /\ vresult = "True"
    /\ Len(returned) = max_attempts
    /\ actuation = <<<<"move", TRUE>>, <<"click", TRUE>>>>

-----------------------------------------------------------------------------
(* Properties of find_image_coordinates (add_to_cart.py)                   *)

\* C13: every call of find_image_coordinates takes exactly one screenshot of
\* its own, its result is computed from that capture alone (nothing of
\* attempt 1 is reused in attempt 2), and the coordinate that is clicked is
\* the center computed from the capture of the attempt that returned Found.
C13_FreshCapture ==
    /\ Len(EventsOf({"screenshot"})) = Len(shots)
    /\ \A i \in 1..Len(vlog) :
          vlog[i].op = "screenshot" => (i > 1 /\ vlog[i - 1].op = "locate")
    /\ \A i \in 1..Len(vlog) :
          vlog[i].op = "locate" =>
             (i < Len(vlog) /\ vlog[i + 1].op = "screenshot")
    /\ \A i \in 1..Len(shots) :
          returned[i] = find_image_coordinates(shots[i], template, thresholds[i])
    /\ \A i \in 1..Len(vlog) :
          vlog[i].op = "click" =>
             /\ Fits(template)
             /\ vlog[i].arg =
                  <<shots[Len(shots)].m.x + (template.w \div 2),
                    shots[Len(shots)].m.y + (template.h \div 2)>>

C13_Witness ==
    /\ vpc = "done"
    /\ Len(shots) = max_attempts
    /\ BelowThreshold(shots[1])
    /\ shots[2].m.x # shots[1].m.x
    /\ Truthy(returned[2])
    /\ EventsOf({"click"}) # <<>>
    /\ Len(EventsOf({"screenshot"})) = 2

\* The answer s is a frame in which the reference was searched: max_val is
\* the global maximum of the correlation (possibly NaN).
Searched(s) == s.capture = "ok" /\ s.decodable /\ Fits(template)

\* C14: on a searched frame find_image_coordinates returns Found if and only
\* if the maximum correlation is >= the threshold (default 0.8), with that
\* maximum as the confidence; so the result is monotone in the threshold: for
\* the same frame and reference, Found at t2 implies Found at every t1 < t2.
C14_ThresholdMonotone ==
    /\ Threshold = 8
    /\ \A i \in 1..Len(shots) :
          Searched(shots[i]) =>
             /\ Truthy(returned[i]) =
                   (~shots[i].m.nan /\ shots[i].m.max_val >= thresholds[i])
             /\ Truthy(returned[i]) => returned[i].val = shots[i].m.max_val
    /\ \A i, j \in 1..Len(shots) :
          (/\ shots[i] = shots[j]
           /\ thresholds[i] < thresholds[j]
           /\ Truthy(returned[j])) => Truthy(returned[i])

C14_Witness ==
    /\ vpc = "located"
    /\ Searched(shots[1])
    /\ thresholds[1] = shots[1].m.max_val
    /\ thresholds[2] = thresholds[1] + 1
    /\ Truthy(returned[1])
    /\ returned[2] = None

-----------------------------------------------------------------------------
(* Properties of the classic driver (add_to_cart_classic.py)               *)

\* The last add_to_cart call got past page.goto and handle_cookie_popup.
ReachedCascade == cookie_result # "pending"

\* C15: with an empty candidate list the cascade issues no visibility probe
\* and no click: the loop body never runs, button_found stays False and
\* add_to_cart returns False.
C15_EmptyListNotFound ==
    num_selectors = 0 =>
       /\ probes = <<>>
       /\ clicks = <<>>
       /\ ~button_found
       /\ button_locator = 0
       /\ \A i \in 1..Len(results) : ~results[i]
       /\ success_count = 0

C15_Witness ==
    /\ num_selectors = 0
    /\ Returned
    /\ ReachedCascade
    /\ probes = <<>>
    /\ ~results[Len(results)]

\* C16: on Found the returned center is the center of the matched box in
\* frame coordinates: for the best match at top-left (x0, y0) and a reference
\* of width w and height h it is (x0 + w div 2, y0 + h div 2), a point inside
\* [x0, x0 + w) x [y0, y0 + h); a 10 x 10 reference matched at (40, 40) gives
\* (45, 45).
C16_CenterOfMatch ==
    /\ Center([x |-> 40, y |-> 40], [w |-> 10, h |-> 10]) = [x |-> 45, y |-> 45]
    /\ \A i \in 1..Len(returned) :
          Truthy(returned[i]) =>
             /\ Searched(shots[i])
             /\ returned[i].x = shots[i].m.x + (template.w \div 2)
             /\ returned[i].y = shots[i].m.y + (template.h \div 2)
             /\ shots[i].m.x <= returned[i].x
             /\ returned[i].x < shots[i].m.x + template.w
             /\ shots[i].m.y <= returned[i].y
             /\ returned[i].y < shots[i].m.y + template.h

C16_Witness ==
    /\ returned # <<>>
    /\ Truthy(returned[1])
    /\ template.w = 3
    /\ template.h = 2
    /\ shots[1].m.y = 0
    /\ returned[1].x = 1
    /\ returned[1].y = 1

\* C17: find_image_coordinates never raises and never actuates: when the
\* capture fails, the frame is undecodable, the reference cannot be loaded or
\* is larger than the frame, or the correlation is undefined (NaN), the call
\* returns None; no call issues a pointer move or a click.
C17_FailureIsNone ==
    /\ Len(returned) = Len(shots)
    /\ \A i \in 1..Len(shots) :
          (\/ shots[i].capture = "raise"
           \/ ~shots[i].decodable
           \/ template = None
           \/ ~Fits(template)
           \/ shots[i].m.nan) => returned[i] = None
    /\ \A i \in 1..Len(returned) :
          returned[i] = None \/ returned[i].kind = "coords"
    /\ ~Acted
    /\ actuation = <<>>
    /\ vresult = "pending"

C17_Witness ==
    /\ vpc = "located"
    /\ template # None
    /\ ~Fits(template)
    /\ shots[1].capture = "ok"
    /\ shots[1].decodable
    /\ returned = <<None, None>>

-----------------------------------------------------------------------------
(* Properties of the pre-wait of visual_click                              *)

\* What visual_click gives its caller, from the locate results and the
\* actuation alone.
ResultOfAttempts ==
    IF returned[Len(returned)] = None THEN "False"
    ELSE IF actuation = <<<<"move", TRUE>>, <<"click", TRUE>>>> THEN "True"
    ELSE "raised"

\* C18: the DOM pre-wait is advisory: whether wait_for succeeded, timed out or
\* was not asked for, visual_click goes on to the initial wait and the locate
\* attempts with the same budget, and its result is decided by those attempts
\* (and the actuation) alone.
C18_PreWaitAdvisory ==
    /\ \A i \in 1..Len(vlog) :
          vlog[i].op = "wait_for" => (i = 1 /\ wait_for_selector # NoSelector)
    /\ vpc \notin {"start", "render_buffer"} =>
          Schedule # <<>> /\ Schedule[1] = Event("sleep", <<RenderBufferMs>>)
    /\ vpc = "done" =>
          /\ returned # <<>>
          /\ Len(returned) = (IF returned[1] = None THEN max_attempts ELSE 1)
          /\ vresult = ResultOfAttempts

C18_Witness ==
    /\ vpc = "done"
    /\ vlog[1] = Event("wait_for", <<0>>)
    /\ Len(returned) = max_attempts
    /\ vresult = "True"

\* main is inside an add_to_cart call.
InCall == cpc \in {"goto", "cookie", "cascade", "decide"}

\* C19: a failure on one URL does not affect the others: every add_to_cart
\* call returns True or False to main, so the URLs of cart are processed once
\* each, in list order, one at a time, and success_count is the number of
\* calls that returned True, between 0 and len(cart).
C19_EveryUrlOnce ==
    /\ Len(visited) = url_index
    /\ url_index <= CartLen
    /\ \A i \in 1..Len(visited) : visited[i] = i
    /\ Len(results) = (IF InCall THEN Len(visited) - 1 ELSE Len(visited))
    /\ success_count = Cardinality({i \in 1..Len(results) : results[i]})
    /\ 0 <= success_count
    /\ success_count <= CartLen
    /\ (~InCall /\ cpc # "main") => Len(results) = CartLen

C19_Witness ==
    /\ cpc = "finished"
    /\ visited = <<1, 2>>
    /\ results = <<FALSE, TRUE>>
    /\ success_count = 1

\* C20: handle_cookie_popup returns True if and only if a cookie button was
\* found visible and its click completed; it tries the selectors in list
\* order, completes at most one click (on the first selector whose probe and
\* click both succeed, which ends the loop), and never raises: a probe or
\* click error moves on to the next selector.  add_to_cart goes on to the
\* selector cascade whether the result is True or False.
C20_CookiePopup ==
    /\ \A i \in 1..Len(cookie_log) : cookie_log[i][1] = i
    /\ \A i \in 1..(Len(cookie_log) - 1) : cookie_log[i][2] # "clicked"
    /\ (cookie_result = "True") =
          (cookie_log # <<>> /\ cookie_log[Len(cookie_log)][2] = "clicked")
    /\ cookie_result = "False" => Len(cookie_log) = NumCookieSelectors
    /\ (cookie_log # <<>> /\ cookie_log[Len(cookie_log)][2] # "clicked") =>
          cookie_index = Len(cookie_log) + 1
    /\ cookie_result \in {"pending", "True", "False"}
    /\ cpc \in {"goto", "cookie"} => cookie_result = "pending"
    /\ cpc \in {"cascade", "decide"} => cookie_result # "pending"
    /\ (ReachedCascade /\ InCall) => (cpc \in {"cascade", "decide"}
                                        /\ selector_index >= 1)

C20_Witness ==
    /\ cookie_log = <<<<1, "click_raised">>, <<2, "clicked">>>>
    /\ cookie_result = "True"
    /\ cpc = "decide"
    /\ probes # <<>>

=============================================================================
